---- MODULE Spec2Model ----
(***************************************************************************)
(* Model of naive_scorer.py: one scoring run of main() against a remote    *)
(* GraphQL endpoint whose answers are chosen nondeterministically.         *)
(*                                                                         *)
(* Text (a URL, a company name) is a sequence of one-character strings,    *)
(* over ASCII letters, digits, punctuation, space, \t, \n, \r and \f.      *)
(* Python's None is the token NoneVal; a JSON array is a sequence.         *)
(* The token check and the input loop of main() lie outside the model, as  *)
(* do the from/to dates of the profile query.                              *)
(***************************************************************************)
EXTENDS Integers, Sequences, FiniteSets, TLC

\* ------------------------------------------------------------------ bounds
\* Pagination sweep: the remote holds at most MaxPages pages per relation,
\* each of at most MaxPageSize nodes (the queries ask for first: 100).
MaxPages == 3
MaxPageSize == 1
\* Scoring run: the remote holds at most RunPages pages per relation.
RunPages == 2
\* Longest URL tail (symbols after the host) tried by the address sweep.
MaxPathLen == 4

\* --------------------------------------------------------------- constants
HTTP_OK == 200
MinContributions == 50
MinRepos == 5

NoneVal == "<None>"

\* ------------------------------------------------------------ text helpers
RECURSIVE SeqsUpTo(_, _)
SeqsUpTo(S, n) ==
    IF n = 0 THEN {<<>>}
    ELSE LET shorter == SeqsUpTo(S, n - 1)
         IN  shorter \cup {Append(s, x) : s \in {t \in shorter : Len(t) = n - 1}, x \in S}

\* Position of the first symbol of s that lies in D, or Len(s)+1 if there is none.
FirstIn(s, D) ==
    IF \E i \in 1..Len(s) : s[i] \in D
    THEN CHOOSE i \in 1..Len(s) : s[i] \in D /\ \A j \in 1..(i - 1) : s[j] \notin D
    ELSE Len(s) + 1

\* str.strip(chars): drop every leading and trailing symbol that lies in D.
RECURSIVE Strip(_, _)
Strip(s, D) ==
    IF s = <<>> THEN s
    ELSE IF Head(s) \in D THEN Strip(Tail(s), D)
    ELSE IF s[Len(s)] \in D THEN Strip(SubSeq(s, 1, Len(s) - 1), D)
    ELSE s

\* str.split(sep): the pieces between separators; never empty ("".split("/") is [""]).
RECURSIVE Split(_, _)
Split(s, sep) ==
    LET i == FirstIn(s, {sep})
    IN  IF i > Len(s) THEN <<s>>
        ELSE <<SubSeq(s, 1, i - 1)>> \o Split(SubSeq(s, i + 1, Len(s)), sep)

\* list[:n]
Take(s, n) == SubSeq(s, 1, IF Len(s) < n THEN Len(s) ELSE n)

UpperLetters == <<"A","B","C","D","E","F","G","H","I","J","K","L","M",
                  "N","O","P","Q","R","S","T","U","V","W","X","Y","Z">>
LowerLetters == <<"a","b","c","d","e","f","g","h","i","j","k","l","m",
                  "n","o","p","q","r","s","t","u","v","w","x","y","z">>

LowerChar(c) ==
    IF \E i \in 1..Len(UpperLetters) : UpperLetters[i] = c
    THEN LowerLetters[CHOOSE i \in 1..Len(UpperLetters) : UpperLetters[i] = c]
    ELSE c

\* str.lower()
Lower(s) == [i \in 1..Len(s) |-> LowerChar(s[i])]

DigitChars == <<"0","1","2","3","4","5","6","7","8","9">>
Range(s) == {s[i] : i \in DOMAIN s}
Letters == Range(UpperLetters) \cup Range(LowerLetters)
Digits == Range(DigitChars)
HexDigits == Digits \cup {"a","b","c","d","e","f","A","B","C","D","E","F"}

Has(s, c) == \E i \in DOMAIN s : s[i] = c
\* s.find(c, from): position of the first c at or after from, 0 if there is none
Find(s, c, from) ==
    IF \E i \in from..Len(s) : s[i] = c
    THEN CHOOSE i \in from..Len(s) : s[i] = c /\ \A j \in from..(i - 1) : s[j] # c
    ELSE 0
\* s.rfind(c): position of the last c, 0 if there is none
RFind(s, c) ==
    IF Has(s, c)
    THEN CHOOSE i \in DOMAIN s : s[i] = c /\ \A j \in (i + 1)..Len(s) : s[j] # c
    ELSE 0

RECURSIVE LStrip(_, _)
LStrip(s, D) == IF s # <<>> /\ Head(s) \in D THEN LStrip(Tail(s), D) ELSE s

\* ipaddress._BaseV4._parse_octet and IPv4Address(str): does not raise
RECURSIVE Decimal(_)
Decimal(ds) ==
    IF ds = <<>> THEN 0
    ELSE 10 * Decimal(SubSeq(ds, 1, Len(ds) - 1))
           + (CHOOSE v \in 0..9 : DigitChars[v + 1] = ds[Len(ds)])
ValidOctet(o) ==
    /\ o # <<>>
    /\ \A i \in DOMAIN o : o[i] \in Digits
    /\ Len(o) <= 3
    /\ o = <<"0">> \/ o[1] # "0"
    /\ Decimal(o) <= 255
ValidIPv4(a) ==
    /\ ~Has(a, "/")
    /\ a # <<>>
    /\ LET octets == Split(a, ".")
       IN  Len(octets) = 4 /\ \A i \in DOMAIN octets : ValidOctet(octets[i])

\* ipaddress._BaseV6._parse_hextet and _ip_int_from_string: does not raise
ValidHextet(h) == h # <<>> /\ (\A i \in DOMAIN h : h[i] \in HexDigits) /\ Len(h) <= 4
\* an IPv4 suffix is replaced by its two hextets
Hextets(given) ==
    IF Has(given[Len(given)], ".")
    THEN SubSeq(given, 1, Len(given) - 1) \o << <<"0">>, <<"0">> >>
    ELSE given
\* the positions of "::" among the parts
Gaps(parts) == {i \in 2..(Len(parts) - 1) : parts[i] = <<>>}
\* the parts before and after the "::" at skip
ValidAround(parts, skip) ==
    LET n == Len(parts)
        hi == IF parts[1] = <<>> THEN skip - 2 ELSE skip - 1
        lo == IF parts[n] = <<>> THEN n - skip - 1 ELSE n - skip
    IN  /\ parts[1] = <<>> => hi = 0
        /\ parts[n] = <<>> => lo = 0
        /\ 8 - (hi + lo) >= 1
        /\ \A i \in 1..hi : ValidHextet(parts[i])
        /\ \A i \in (n - lo + 1)..n : ValidHextet(parts[i])
ValidParts(given, parts) ==
    /\ Len(given) >= 3
    /\ Has(given[Len(given)], ".") => ValidIPv4(given[Len(given)])
    /\ Len(parts) <= 9
    /\ Cardinality(Gaps(parts)) <= 1
    /\ IF Gaps(parts) # {}
       THEN ValidAround(parts, CHOOSE i \in Gaps(parts) : TRUE)
       ELSE Len(parts) = 8 /\ \A i \in 1..Len(parts) : ValidHextet(parts[i])
ValidIPv6Body(a) == a # <<>> /\ ValidParts(Split(a, ":"), Hextets(Split(a, ":")))
\* IPv6Address(str), with its scope id
ValidIPv6(a) ==
    /\ ~Has(a, "/")
    /\ LET p == Find(a, "%", 1)
       IN  IF p = 0 THEN ValidIPv6Body(a)
           ELSE /\ p < Len(a)
                /\ ~Has(SubSeq(a, p + 1, Len(a)), "%")
                /\ ValidIPv6Body(SubSeq(a, 1, p - 1))

\* urllib.parse._check_bracketed_host does not raise: an IPvFuture literal
\* v<hex>+.<text>, or an IPv6 address
ValidBracketedHost(h) ==
    IF h # <<>> /\ h[1] = "v"
    THEN LET dot == Find(h, ".", 1)
         IN  dot >= 3 /\ dot < Len(h) /\ \A i \in 2..(dot - 1) : h[i] \in HexDigits
    ELSE ValidIPv6(h)

C0Space == {" ", "\t", "\n", "\r", "\f"}
IsSafe(c) == c \notin {"\t", "\r", "\n"}
SchemeChars == Letters \cup Digits \cup {"+", "-", "."}
UsesParams ==
    {<<>>, <<"f","t","p">>, <<"h","d","l">>, <<"p","r","o","s","p","e","r","o">>,
     <<"h","t","t","p">>, <<"i","m","a","p">>, <<"h","t","t","p","s">>,
     <<"s","h","t","t","p">>, <<"r","t","s","p">>, <<"r","t","s","p","s">>,
     <<"r","t","s","p","u">>, <<"s","i","p">>, <<"s","i","p","s">>, <<"m","m","s">>,
     <<"s","f","t","p">>, <<"t","e","l">>}

\* urlsplit: the url without leading C0 control characters and spaces, and
\* without tabs and line ends
Cleaned(url) == SelectSeq(LStrip(url, C0Space), IsSafe)
\* urlsplit: the position of the ':' that ends a valid scheme, 0 if there is none
SchemeEnd(text) ==
    LET colon == Find(text, ":", 1)
    IN  IF /\ colon > 1
           /\ text[1] \in Letters
           /\ \A k \in 1..(colon - 1) : text[k] \in SchemeChars
        THEN colon
        ELSE 0
HasNetloc(rest) == Len(rest) >= 2 /\ rest[1] = "/" /\ rest[2] = "/"
\* urllib.parse._splitnetloc(url, 2): where the netloc ends
NetlocEnd(rest) ==
    IF \E i \in 3..Len(rest) : rest[i] \in {"/", "?", "#"}
    THEN CHOOSE i \in 3..Len(rest) :
            rest[i] \in {"/", "?", "#"} /\ \A j \in 3..(i - 1) : rest[j] \notin {"/", "?", "#"}
    ELSE Len(rest) + 1
\* s.partition(c)[0] and s.partition(c)[2]
Before(s, c) == IF Has(s, c) THEN SubSeq(s, 1, Find(s, c, 1) - 1) ELSE s
After(s, c) == IF Has(s, c) THEN SubSeq(s, Find(s, c, 1) + 1, Len(s)) ELSE <<>>
\* urlsplit: the checks of the netloc raise ValueError
NetlocRaises(netloc) ==
    \/ Has(netloc, "[") # Has(netloc, "]")
    \/ Has(netloc, "[") /\ ~ValidBracketedHost(Before(After(netloc, "["), "]"))
\* urlsplit, after the scheme: netloc, then fragment and query cut off the path
SplitRest(scheme, netloc, tail) ==
    IF NetlocRaises(netloc)
    THEN [raised |-> "ValueError", scheme |-> <<>>, netloc |-> <<>>, path |-> <<>>]
    ELSE [raised |-> "", scheme |-> scheme, netloc |-> netloc,
          path |-> Before(Before(tail, "#"), "?")]
SplitNetloc(scheme, rest) ==
    IF HasNetloc(rest)
    THEN SplitRest(scheme, SubSeq(rest, 3, NetlocEnd(rest) - 1),
                   SubSeq(rest, NetlocEnd(rest), Len(rest)))
    ELSE SplitRest(scheme, <<>>, rest)
SplitScheme(text, colon) ==
    IF colon = 0
    THEN SplitNetloc(<<>>, text)
    ELSE SplitNetloc(Lower(SubSeq(text, 1, colon - 1)), SubSeq(text, colon + 1, Len(text)))

\* urllib.parse.urlsplit(url): scheme, netloc and path, or the ValueError it raises
urlsplit(url) == SplitScheme(Cleaned(url), SchemeEnd(Cleaned(url)))

\* urllib.parse._splitparams(url)[0]
splitparams(path) ==
    LET i == IF Has(path, "/") THEN Find(path, ";", RFind(path, "/")) ELSE Find(path, ";", 1)
    IN  IF i = 0 THEN path ELSE SubSeq(path, 1, i - 1)

\* urllib.parse.urlparse(url): as urlsplit, the params cut off the path
urlparse(url) ==
    LET r == urlsplit(url)
    IN  IF r.raised = "" /\ r.scheme \in UsesParams /\ Has(r.path, ";")
        THEN [r EXCEPT !.path = splitparams(r.path)]
        ELSE r

\* parse_repo_url: urlparse may raise; the unpacking "owner, repo = ..." raises
\* ValueError unless the slice holds exactly two pieces.
parse_repo_url(repo_url) ==
    LET parsed == urlparse(repo_url)
        path  == Strip(parsed.path, {"/"})
        parts == Take(Split(path, "/"), 2)
    IN  IF parsed.raised = "" /\ Len(parts) = 2
        THEN [raised |-> "", owner |-> parts[1], repo |-> parts[2]]
        ELSE [raised |-> "ValueError", owner |-> <<>>, repo |-> <<>>]

Octocat == <<"o","c","t","o","c","a","t">>
HelloWorld == <<"H","e","l","l","o","-","W","o","r","l","d">>
UrlPrefix == <<"h","t","t","p","s",":","/","/","g","i","t","h","u","b",".","c","o","m">>
GoodUrl == UrlPrefix \o <<"/">> \o Octocat \o <<"/">> \o HelloWorld
OwnerOnlyUrl == UrlPrefix \o <<"/","j","u","s","t","o","w","n","e","r">>
\* Lines typed at the prompt that are off the expected form: a doubled slash,
\* params, a text that is no scheme before the colon, no scheme at all, bracketed
\* hosts, blanks around the address, a blank line.
OddUrls ==
    {UrlPrefix \o <<"/">> \o Octocat \o <<"/", "/">> \o HelloWorld,
     UrlPrefix \o <<"/">> \o Octocat \o <<"/">> \o HelloWorld \o <<";", "x">>,
     UrlPrefix \o <<"/">> \o Octocat \o <<"/", ";">> \o HelloWorld,
     <<"/","a",":","b","/","c">>,
     <<"1","x",":","/","/","h","/","a","/","b">>,
     <<"a","/","b">>,
     <<"h","t","t","p","s",":","/","/","[","g","i","t","h","u","b",".","c","o","m","/","a","/","b">>,
     <<"h","t","t","p","s",":","/","/","[",":",":","1","]","/","a","/","b">>,
     <<"h","t","t","p","s",":","/","/","[","v","1",".","x","]",":","8","0","/","a","/","b">>,
     <<"h","t","t","p","s",":","/","/","[","1",".","2",".","3",".","4","]","/","a","/","b">>,
     <<" "," ","H","T","T","P","S",":","/","/","h","/","a","/","b","#","c","/","d">>,
     <<"\t","h","t","t","p",":","/","/","h","/","a","/","b","/","c"," ","\n">>,
     <<" "," ">>,
     <<"x","-","y",":","/","/","h","/","a",";","p","/","b",";","q">>}
\* the characters str.strip() drops, those that can be typed here
Whitespace == {" ", "\t", "\n", "\r", "\f"}
\* main, line 170: the lines typed at the prompt
TypedLines ==
    {UrlPrefix \o t : t \in SeqsUpTo({"/", "a", "b", "?", ";"}, MaxPathLen)}
        \cup {GoodUrl, OwnerOnlyUrl} \cup OddUrls
\* main, lines 170-172: repo_url is the typed line stripped of blanks, and only
\* a non-empty one is parsed
UrlSweep == {Strip(t, Whitespace) : t \in TypedLines} \ {<<>>}

\* ------------------------------------------------------------ company text
\* needle in hay
Contains(needle, hay) ==
    \E i \in 0..(Len(hay) - Len(needle)) : SubSeq(hay, i + 1, i + Len(needle)) = needle

Microsoft == <<"m","i","c","r","o","s","o","f","t">>
NoneCompany == <<NoneVal>>
KindFalse == "<False>"

\* A Python value used as a condition: None and "" are false.
Truthy(company) == company # NoneCompany /\ company # <<>>

\* is_significant_user, the decision on the fetched profile (lines 156-162)
significance_caseSensitive(contributions, company, public_repos) ==
    IF Truthy(company) /\ Contains(Microsoft, company)
    THEN [sig |-> TRUE, kind |-> "msft"]
    ELSE IF contributions >= MinContributions /\ public_repos >= MinRepos
    THEN [sig |-> TRUE, kind |-> "other"]
    ELSE [sig |-> FALSE, kind |-> KindFalse]

significance(contributions, company, public_repos) ==
    IF Truthy(company) /\ Contains(Microsoft, Lower(company))
    THEN [sig |-> TRUE, kind |-> "msft"]
    ELSE IF contributions >= MinContributions /\ public_repos >= MinRepos
    THEN [sig |-> TRUE, kind |-> "other"]
    ELSE [sig |-> FALSE, kind |-> KindFalse]

\* ---------------------------------------------------------- the remote side
Logins == {"a", "b", "c"}
Relations == {"stargazers", "watchers", "forks"}
EndCursors == {"c1", "c2"}
FailStatuses == {403, 502}

\* A response body: top-level "data" absent, null or an object; inside it the
\* queried entity ("repository" or "user") null or an object with the payload.
Body(d, e, p) == [data |-> d, entity |-> e, payload |-> p]
Http(s, b) == [transport |-> "ok", status |-> s, body |-> b]
\* requests.post raised (connection failure): there is no response.
ConnError(p0) == [transport |-> "error", status |-> 0, body |-> Body("absent", "null", p0)]

FailOutcomes(p0) ==
    {ConnError(p0)}
        \cup {Http(s, Body("absent", "null", p0)) : s \in FailStatuses}
        \cup {Http(HTTP_OK, Body(d, "null", p0)) : d \in {"absent", "null", "object"}}

Item(field, login) ==
    IF field = "forks" THEN [owner |-> [login |-> login]] ELSE [login |-> login]

Page(nodes, more, cursor) ==
    [nodes |-> nodes, pageInfo |-> [hasNextPage |-> more, endCursor |-> cursor]]

\* The logins of one page: the remote lists each user once, in its own order.
LoginOrder == <<"a", "b", "c">>
PageLogins ==
    {s \in SeqsUpTo(Logins, MaxPageSize) :
        \A i, j \in DOMAIN s :
            i < j => (CHOOSE k \in DOMAIN LoginOrder : LoginOrder[k] = s[i])
                       < (CHOOSE k \in DOMAIN LoginOrder : LoginOrder[k] = s[j])}

\* In the scoring run every page lists at most one user.
RunPageLogins == {<<>>} \cup {<<l>> : l \in Logins}

\* The answers the remote can give to request number n of a collect_users call,
\* when it holds at most limit pages whose logins are drawn from contents.
PageOutcomes(field, n, limit, contents) ==
    FailOutcomes(Page(<<>>, FALSE, NoneVal))
        \cup {Http(HTTP_OK, Body("object", "object", Page(ns, more, c))) :
                ns \in {[i \in DOMAIN s |-> Item(field, s[i])] : s \in contents},
                more \in {m \in BOOLEAN : m => n < limit},
                c \in EndCursors}

Counts(s, w, f) == [stargazerCount |-> s, watchers |-> [totalCount |-> w], forkCount |-> f]
CountOutcomes ==
    FailOutcomes(Counts(0, 0, 0))
        \cup {Http(HTTP_OK, Body("object", "object", Counts(3, 2, 1)))}

User(n, company, r) ==
    [contributionsCollection |-> [contributionCalendar |-> [totalContributions |-> n]],
     company |-> company, repositories |-> [totalCount |-> r]]
UserOutcome(n, company, r) == Http(HTTP_OK, Body("object", "object", User(n, company, r)))

MicrosoftCorp == <<"M","i","c","r","o","s","o","f","t"," ","C","o","r","p">>
UserOutcomes ==
    FailOutcomes(User(0, <<>>, 0))
        \cup {UserOutcome(0, MicrosoftCorp, 0), UserOutcome(50, NoneCompany, 5),
              UserOutcome(49, <<>>, 10)}

\* Profiles for the sweep of the decision rule: every spelling of the word in
\* upper and lower case, near misses, with and without text around it.
Spellings ==
    {[i \in 1..Len(Microsoft) |-> IF i \in up THEN UpperLetters[
          CHOOSE k \in 1..Len(LowerLetters) : LowerLetters[k] = Microsoft[i]]
          ELSE Microsoft[i]] : up \in SUBSET (1..Len(Microsoft))}
NearMisses ==
    {<<>>, <<"m","i","c","r","o","s","o","f">>, <<"m","i","c","r","o"," ","s","o","f","t">>,
     <<"g","o","o","g","l","e">>, <<"M","S","F","T">>, <<"i","c","r","o","s","o","f","t">>}
CompanySweep ==
    {NoneCompany}
        \cup {pre \o core \o suf : pre \in {<<>>, <<"@">>},
                                   core \in Spellings \cup NearMisses,
                                   suf \in {<<>>, <<" ","C","o","r","p">>}}
ProfileSweep ==
    {UserOutcome(n, company, r) :
        n \in {0, 49, 50, 51}, company \in CompanySweep, r \in {0, 4, 5, 10}}

\* ------------------------------------------------------------ run_graphql_query
\* The value returned (none: Python None, else the parsed tree) or the exception
\* that leaves the function: requests.post is not guarded.
run_graphql_query(outcome) ==
    IF outcome.transport = "error"
    THEN [raised |-> "ConnectionError", none |-> TRUE, json |-> outcome.body]
    ELSE IF outcome.status # HTTP_OK
    THEN [raised |-> "", none |-> TRUE, json |-> outcome.body]
    ELSE [raised |-> "", none |-> FALSE, json |-> outcome.body]

\* not data or "data" not in data or not data["data"][key]
\* "absent": the condition is true; "present": it is false; "TypeError": the
\* subscript of data["data"] = None raises.
Entity(data) ==
    IF data.none THEN "absent"
    ELSE IF data.json.data = "absent" THEN "absent"
    ELSE IF data.json.data = "null" THEN "TypeError"
    ELSE IF data.json.entity = "null" THEN "absent"
    ELSE "present"

\* ------------------------------------------------------------ pure steps
\* The login collected from one node (line 82/86: u["login"]; line 90: f["owner"]["login"]).
LoginOf(field, node) == IF field = "forks" THEN node.owner.login ELSE node.login

\* users.update([... for u in nodes])
merge_users(users_, field, nodes) == users_ \cup {LoginOf(field, nodes[i]) : i \in DOMAIN nodes}

\* after = page_info["endCursor"]
next_after_restart(page_info) == NoneVal

next_after(page_info) == page_info.endCursor

\* get_contributions_last_year, from the value run_graphql_query returned
get_contributions_last_year(data) ==
    IF data.raised # ""
    THEN [raised |-> data.raised, contributions |-> 0, company |-> <<>>, public_repos |-> 0]
    ELSE IF Entity(data) = "TypeError"
    THEN [raised |-> "TypeError", contributions |-> 0, company |-> <<>>, public_repos |-> 0]
    ELSE IF Entity(data) = "absent"
    THEN [raised |-> "", contributions |-> 0, company |-> <<>>, public_repos |-> 0]
    ELSE LET user == data.json.payload
         IN  [raised |-> "",
              contributions |-> user.contributionsCollection.contributionCalendar.totalContributions,
              company |-> user.company,
              public_repos |-> user.repositories.totalCount]

\* all_users = stargazers | watchers_set | forks_users
engaged_noForks(s, w, f) == s \cup w

engaged(s, w, f) == s \cup w \cup f

\* if sig: significant_users.add(login)
add_significant(set, login, v) == IF v.sig THEN set \cup {login} ELSE set

\* if sig: ... if kind == "msft": msft_users.add(login)
add_msft_anyKind(set, login, v) == IF v.sig THEN set \cup {login} ELSE set

add_msft(set, login, v) == IF v.sig /\ v.kind = "msft" THEN set \cup {login} ELSE set

\* len(x) / len(all_users) if all_users else 0, kept as the exact fraction num/den
rate_noGuard(count, everyone) == [num |-> count, den |-> Cardinality(everyone)]

rate(count, everyone) ==
    IF everyone # {} THEN [num |-> count, den |-> Cardinality(everyone)]
    ELSE [num |-> 0, den |-> 1]

Request(field, owner_, repo_, after_, login) ==
    [field |-> field, owner |-> owner_, repo |-> repo_, after |-> after_, login |-> login]

\* ------------------------------------------------------------------ state
VARIABLES
    pc,                 \* position of main: parse, a relation being collected,
                        \* counts, classify, done, or crashed (an exception left main)
    err,                \* the exception that left main, "" if none
    repo_url, owner, repo,
    users, after, iter, \* collect_users: its locals and the requests it has issued
    log,                \* requests of the operation in progress or last finished,
                        \* each with the remote's answer
    all_stargazers, all_watchers, all_forks,
    stars, watches, forks_count,
    countRequests,      \* number of count queries issued in this run
    all_users,
    calls,              \* is_significant_user invocations per login
    classification,     \* kind returned by is_significant_user per login
    profile,            \* last value returned by get_contributions_last_year
    significant_users, msft_users,
    power_users_rate, msft_users_rate

address == <<repo_url, owner, repo>>
frame == <<users, after, iter>>
collected == <<all_stargazers, all_watchers, all_forks>>
counted == <<stars, watches, forks_count, countRequests>>
scoring == <<all_users, calls, classification, profile, significant_users, msft_users>>
rates == <<power_users_rate, msft_users_rate>>
vars == <<pc, err, log, address, frame, collected, counted, scoring, rates>>

NoProfile == [raised |-> "", contributions |-> 0, company |-> <<>>, public_repos |-> 0]

Blank ==
    /\ err = ""
    /\ owner = <<>> /\ repo = <<>>
    /\ users = {} /\ after = NoneVal /\ iter = 0
    /\ log = <<>>
    /\ all_stargazers = {} /\ all_watchers = {} /\ all_forks = {}
    /\ stars = 0 /\ watches = 0 /\ forks_count = 0 /\ countRequests = 0
    /\ all_users = {}
    /\ calls = [l \in Logins |-> 0]
    /\ classification = [l \in Logins |-> "unclassified"]
    /\ profile = NoProfile
    /\ significant_users = {} /\ msft_users = {}
    /\ power_users_rate = [num |-> 0, den |-> 1]
    /\ msft_users_rate = [num |-> 0, den |-> 1]

Init ==
    /\ pc = "parse"
    /\ repo_url \in {GoodUrl, OwnerOnlyUrl}
    /\ Blank

\* An exception propagates out of main.
Crash(e) == pc' = "crashed" /\ err' = e

\* ---------------------------------------------------------------- actions
\* main, line 172: owner, repo = parse_repo_url(repo_url)
ParseRepoUrl ==
    /\ pc = "parse"
    /\ LET r == parse_repo_url(repo_url)
       IN  IF r.raised # ""
           THEN Crash(r.raised) /\ UNCHANGED <<owner, repo>>
           ELSE pc' = "stargazers" /\ owner' = r.owner /\ repo' = r.repo /\ err' = err
    /\ UNCHANGED <<repo_url, log, frame, collected, counted, scoring, rates>>

NextAfterCollect(field) ==
    IF field = "stargazers" THEN "watchers"
    ELSE IF field = "watchers" THEN "forks"
    ELSE "counts"

\* collect_users returns: the caller stores the set and goes on (lines 95, 98-100);
\* the next call starts with fresh locals (lines 38-39).
Return(field, result) ==
    /\ all_stargazers' = IF field = "stargazers" THEN result ELSE all_stargazers
    /\ all_watchers' = IF field = "watchers" THEN result ELSE all_watchers
    /\ all_forks' = IF field = "forks" THEN result ELSE all_forks
    /\ pc' = NextAfterCollect(field)
    /\ users' = {} /\ after' = NoneVal /\ iter' = 0
    /\ err' = err

\* One pass of the while loop of collect_users (lines 40-94).
CollectPage(limit, contents) ==
    /\ pc \in Relations
    /\ \E outcome \in PageOutcomes(pc, iter + 1, limit, contents) :
         LET data  == run_graphql_query(outcome)
             entry == [request |-> Request(pc, owner, repo, after, NoneVal), outcome |-> outcome]
         IN  /\ log' = IF iter = 0 THEN <<entry>> ELSE Append(log, entry)
             /\ IF data.raised # ""
                THEN Crash(data.raised) /\ UNCHANGED <<frame, collected>>
                ELSE IF Entity(data) = "TypeError"
                THEN Crash("TypeError") /\ UNCHANGED <<frame, collected>>
                ELSE IF Entity(data) = "absent"
                THEN Return(pc, users)
                ELSE LET repo_data == data.json.payload
                         merged == merge_users(users, pc, repo_data.nodes)
                     IN  IF repo_data.pageInfo.hasNextPage
                         THEN /\ after' = next_after(repo_data.pageInfo)
                              /\ users' = merged
                              /\ iter' = iter + 1
                              /\ UNCHANGED <<pc, err, collected>>
                         ELSE Return(pc, merged)
    /\ UNCHANGED <<address, counted, scoring, rates>>

\* The count query and the rest of get_repo_stats_and_users (lines 102-119),
\* then main's union (line 178).
CountQuery ==
    /\ pc = "counts"
    /\ \E outcome \in CountOutcomes :
         LET data  == run_graphql_query(outcome)
             entry == [request |-> Request("counts", owner, repo, NoneVal, NoneVal),
                       outcome |-> outcome]
         IN  /\ log' = <<entry>>
             /\ countRequests' = countRequests + 1
             /\ IF data.raised # ""
                THEN Crash(data.raised) /\ UNCHANGED <<stars, watches, forks_count, all_users>>
                ELSE IF Entity(data) = "TypeError"
                THEN Crash("TypeError") /\ UNCHANGED <<stars, watches, forks_count, all_users>>
                ELSE /\ stars' = IF Entity(data) = "present"
                                 THEN data.json.payload.stargazerCount ELSE 0
                     /\ watches' = IF Entity(data) = "present"
                                   THEN data.json.payload.watchers.totalCount ELSE 0
                     /\ forks_count' = IF Entity(data) = "present"
                                       THEN data.json.payload.forkCount ELSE 0
                     /\ all_users' = engaged(all_stargazers, all_watchers, all_forks)
                     /\ pc' = "classify"
                     /\ err' = err
    /\ UNCHANGED <<address, frame, collected, calls, classification, profile,
                   significant_users, msft_users, rates>>

Visited == {l \in Logins : calls[l] > 0}

\* One pass of the for loop of main (lines 184-189): is_significant_user(login)
\* with the remote answering from Outcomes, then the two set updates.
ClassifyUser(Outcomes) ==
    /\ pc = "classify"
    /\ \E login \in all_users \ Visited, outcome \in Outcomes :
         LET data  == run_graphql_query(outcome)
             p     == get_contributions_last_year(data)
             v     == significance(p.contributions, p.company, p.public_repos)
             entry == [request |-> Request("user", <<>>, <<>>, NoneVal, login),
                       outcome |-> outcome]
         IN  /\ log' = <<entry>>
             /\ calls' = [calls EXCEPT ![login] = @ + 1]
             /\ IF p.raised # ""
                THEN /\ Crash(p.raised)
                     /\ UNCHANGED <<classification, profile, significant_users, msft_users>>
                ELSE /\ profile' = p
                     /\ classification' = [classification EXCEPT ![login] = v.kind]
                     /\ significant_users' = add_significant(significant_users, login, v)
                     /\ msft_users' = add_msft(msft_users, login, v)
                     /\ UNCHANGED <<pc, err>>
    /\ UNCHANGED <<address, frame, collected, counted, all_users, rates>>

\* After the loop: the two rates (lines 194-195).
Finish ==
    /\ pc = "classify"
    /\ Visited = all_users
    /\ power_users_rate' = rate(Cardinality(significant_users), all_users)
    /\ msft_users_rate' = rate(Cardinality(msft_users), all_users)
    /\ pc' = "done"
    /\ UNCHANGED <<err, log, address, frame, collected, counted, scoring>>

Collect == CollectPage(RunPages, RunPageLogins)
Classify == ClassifyUser(UserOutcomes)

Next == ParseRepoUrl \/ Collect \/ CountQuery \/ Classify \/ Finish

Spec == Init /\ [][Next]_vars

\* The address sweep: parse_repo_url on every URL of UrlSweep.
InitParse == pc = "parse" /\ repo_url \in UrlSweep /\ Blank
NextParse == ParseRepoUrl
SpecParse == InitParse /\ [][NextParse]_vars

\* The pagination sweep: one collect_users call per relation against every remote
\* of at most MaxPages pages.  Each start is a state of a run: the relations
\* before the swept one were refused by the remote on their first request.
Refused(field) ==
    [request |-> Request(field, Octocat, HelloWorld, NoneVal, NoneVal),
     outcome |-> Http(502, Body("absent", "null", Page(<<>>, FALSE, NoneVal)))]
StartLog(field) ==
    IF field = "stargazers" THEN <<>>
    ELSE IF field = "watchers" THEN <<Refused("stargazers")>>
    ELSE <<Refused("watchers")>>
InitCollect ==
    /\ pc \in Relations
    /\ err = ""
    /\ repo_url = GoodUrl /\ owner = Octocat /\ repo = HelloWorld
    /\ users = {} /\ after = NoneVal /\ iter = 0
    /\ log = StartLog(pc)
    /\ all_stargazers = {} /\ all_watchers = {} /\ all_forks = {}
    /\ stars = 0 /\ watches = 0 /\ forks_count = 0 /\ countRequests = 0
    /\ all_users = {}
    /\ calls = [l \in Logins |-> 0]
    /\ classification = [l \in Logins |-> "unclassified"]
    /\ profile = NoProfile
    /\ significant_users = {} /\ msft_users = {}
    /\ power_users_rate = [num |-> 0, den |-> 1]
    /\ msft_users_rate = [num |-> 0, den |-> 1]
CollectSweep ==
    /\ iter > 0 \/ log = StartLog(pc)
    /\ CollectPage(MaxPages, PageLogins)
NextCollect == CollectSweep
SpecCollect == InitCollect /\ [][NextCollect]_vars

\* The rule sweep: one engaged user, the remote answering with every profile of
\* ProfileSweep.  The start is the state of a run that collected stargazers {a}
\* and whose count query was refused.
InitClassify ==
    /\ pc = "classify"
    /\ err = ""
    /\ repo_url = GoodUrl /\ owner = Octocat /\ repo = HelloWorld
    /\ users = {} /\ after = NoneVal /\ iter = 0
    /\ log = <<[request |-> Request("counts", owner, repo, NoneVal, NoneVal),
                outcome |-> Http(403, Body("absent", "null", Counts(0, 0, 0)))]>>
    /\ all_stargazers = {"a"} /\ all_watchers = {} /\ all_forks = {}
    /\ stars = 0 /\ watches = 0 /\ forks_count = 0 /\ countRequests = 1
    /\ all_users = {"a"}
    /\ calls = [l \in Logins |-> 0]
    /\ classification = [l \in Logins |-> "unclassified"]
    /\ profile = NoProfile
    /\ significant_users = {} /\ msft_users = {}
    /\ power_users_rate = [num |-> 0, den |-> 1]
    /\ msft_users_rate = [num |-> 0, den |-> 1]
SweepUser == ClassifyUser(ProfileSweep)
NextClassify == SweepUser \/ Finish
SpecClassify == InitClassify /\ [][NextClassify]_vars

\* ================================================================ properties
Last(sq) == sq[Len(sq)]
\* The answer is a page / an entity: success status, data an object, entity present.
Answered(o) ==
    o.transport = "ok" /\ o.status = 200 /\ o.body.data = "object" /\ o.body.entity = "object"
\* The executor returned an absent result, or the response carries no entity
\* (entity null, or top-level data absent or null).
NoEntity(o) == o.transport = "ok" /\ ~Answered(o)
LogOfCollect == log # <<>> /\ log[1].request.field \in Relations
ResultOf(field) ==
    IF field = "stargazers" THEN all_stargazers
    ELSE IF field = "watchers" THEN all_watchers
    ELSE all_forks
NodeLogin(field, node) == IF field = "forks" THEN node.owner.login ELSE node.login
\* The logins on pages 1..n of the logged call.
PagesLogins(n) ==
    UNION {{NodeLogin(log[1].request.field, log[i].outcome.body.payload.nodes[k]) :
                k \in DOMAIN log[i].outcome.body.payload.nodes} : i \in 1..n}
PageInfo(i) == log[i].outcome.body.payload.pageInfo

\* C1: when every request of a collect_users call was answered by a page, the
\* first request carried no cursor, request i > 1 carried the endCursor of page
\* i-1, every page before the last had hasNextPage = true, the call goes on
\* exactly while the last page has hasNextPage = true, and on return the set is
\* the union of the logins of all pages (N pages, N requests).
C1_CursorProtocol ==
    (LogOfCollect /\ \A i \in DOMAIN log : Answered(log[i].outcome)) =>
        LET field == log[1].request.field
            N == Len(log)
        IN  /\ \A i \in 1..N : log[i].request.field = field
            /\ log[1].request.after = NoneVal
            /\ \A i \in 2..N : log[i].request.after = PageInfo(i - 1).endCursor
            /\ \A i \in 1..(N - 1) : PageInfo(i).hasNextPage
            /\ pc = field => /\ PageInfo(N).hasNextPage
                             /\ iter = N
                             /\ after = PageInfo(N).endCursor
                             /\ users = PagesLogins(N)
            /\ pc # field => /\ ~PageInfo(N).hasNextPage
                             /\ pc = NextAfterCollect(field)
                             /\ err = ""
                             /\ ResultOf(field) = PagesLogins(N)

\* A call that returned after three pages with three different logins.
C1_Witness ==
    /\ LogOfCollect /\ Len(log) = 3
    /\ \A i \in DOMAIN log : Answered(log[i].outcome)
    /\ pc = NextAfterCollect(log[1].request.field)
    /\ PageInfo(1).endCursor # PageInfo(2).endCursor
    /\ Cardinality(ResultOf(log[1].request.field)) = 3

\* C2: when the last request of a collect_users call got no repository (absent
\* result from the executor, repository null, data absent or null), the call
\* has returned the union of the earlier pages without an error and the run has
\* gone on to the next operation.
C2_FailSoft ==
    (LogOfCollect /\ NoEntity(Last(log).outcome)) =>
        /\ err = ""
        /\ pc = NextAfterCollect(log[1].request.field)
        /\ ResultOf(log[1].request.field) = PagesLogins(Len(log) - 1)

\* C3: whatever the outcome of the network request, no exception leaves
\* run_graphql_query: after a transport error or a non-success status the run
\* has not been ended by an exception.
C3_NeverRaises ==
    (log # <<>> /\ (Last(log).outcome.transport = "error" \/ Last(log).outcome.status # 200))
        => err = ""

\* x is the letter y (lower case) in either case.
SameLetter(x, y) ==
    x = y \/ \E k \in DOMAIN LowerLetters : LowerLetters[k] = y /\ UpperLetters[k] = x
NamesTheOrg(org) ==
    /\ org # NoneCompany
    /\ \E i \in 0..(Len(org) - 9) : \A j \in 1..9 : SameLetter(org[i + j], Microsoft[j])
Expected(n, org, r) ==
    IF NamesTheOrg(org) THEN "msft"
    ELSE IF n >= 50 /\ r >= 5 THEN "other"
    ELSE KindFalse

\* C4: the kind returned for a fetched profile is "msft" if the organization
\* text contains "microsoft" in any mix of upper and lower case, else "other"
\* iff contributions >= 50 and repositories >= 5, else not significant; with
\* the four named cases.
C4_Precedence ==
    (log # <<>> /\ Last(log).request.field = "user" /\ Answered(Last(log).outcome)) =>
        LET u == Last(log).outcome.body.payload
            login == Last(log).request.login
            n == u.contributionsCollection.contributionCalendar.totalContributions
            r == u.repositories.totalCount
            kind == classification[login]
        IN  /\ kind = Expected(n, u.company, r)
            /\ login \in significant_users <=> kind \in {"msft", "other"}
            /\ login \in msft_users <=> kind = "msft"
            /\ (u.company = MicrosoftCorp /\ n = 0) => kind = "msft"
            /\ (~NamesTheOrg(u.company) /\ n = 49 /\ r = 10) => kind = KindFalse
            /\ (~NamesTheOrg(u.company) /\ n = 50 /\ r = 5) => kind = "other"
            /\ (~NamesTheOrg(u.company) /\ n = 50 /\ r = 4) => kind = KindFalse

\* "Microsoft Corp" with no contributions and no repositories was classified.
C4_Witness ==
    /\ log # <<>> /\ Last(log).request.field = "user"
    /\ Last(log).outcome = UserOutcome(0, MicrosoftCorp, 0)
    /\ classification[Last(log).request.login] = "msft"

UnitRate(q) == q.den >= 1 /\ 0 <= q.num /\ q.num <= q.den

\* C5: at the end of a run both rates are fractions between 0 and 1, and both
\* are 0 (not a division by zero) when there is no engaged user.
C5_RateBounds ==
    pc = "done" =>
        /\ UnitRate(power_users_rate) /\ UnitRate(msft_users_rate)
        /\ all_users = {} => power_users_rate.num = 0 /\ msft_users_rate.num = 0
        /\ all_users # {} =>
             /\ power_users_rate = [num |-> Cardinality(significant_users),
                                    den |-> Cardinality(all_users)]
             /\ msft_users_rate = [num |-> Cardinality(msft_users),
                                   den |-> Cardinality(all_users)]

\* A run that ended with no engaged user at all.
C5_Witness == pc = "done" /\ all_users = {} /\ power_users_rate.num = 0

Disjoint3(A, B, C) == A \cap B = {} /\ A \cap C = {} /\ B \cap C = {}

\* C6: once the three sets are returned, the engaged users are exactly the
\* logins of some relation, each counted once: their number is at most the sum
\* of the three sizes, with equality iff the sets are pairwise disjoint.
C6_Union ==
    pc \in {"classify", "done"} =>
        LET A == all_stargazers
            B == all_watchers
            C == all_forks
            sum == Cardinality(A) + Cardinality(B) + Cardinality(C)
            totalEngaged == Cardinality(all_users)
        IN  /\ \A l \in Logins : l \in all_users <=> (l \in A \/ l \in B \/ l \in C)
            /\ totalEngaged = Cardinality(A \cup B \cup C)
            /\ totalEngaged <= sum
            /\ totalEngaged = sum <=> Disjoint3(A, B, C)

\* A login that is in all three relations, and one that is in the forks only.
C6_Witness ==
    /\ pc = "classify"
    /\ "a" \in all_stargazers \cap all_watchers \cap all_forks
    /\ "b" \in all_forks \ (all_stargazers \cup all_watchers)
    /\ Cardinality(all_users) = 2

\* C7: the classifier is never invoked twice for a login nor for a login that
\* is not engaged; at the end of a run it was invoked once for every engaged
\* login, the significant users are those classified msft or other, the org
\* users those classified msft, and orgCount <= significantCount <=
\* totalEngaged; {a,b}, {b,c}, {} with a msft, b not significant, c other
\* gives 3, 2 and 1.
C7_Tally ==
    /\ \A l \in Logins : calls[l] <= 1 /\ (calls[l] = 1 => l \in all_users)
    /\ pc = "done" =>
         /\ \A l \in Logins : calls[l] = (IF l \in all_users THEN 1 ELSE 0)
         /\ significant_users = {l \in all_users : classification[l] \in {"msft", "other"}}
         /\ msft_users = {l \in all_users : classification[l] = "msft"}
         /\ Cardinality(msft_users) <= Cardinality(significant_users)
         /\ Cardinality(significant_users) <= Cardinality(all_users)
         /\ ( /\ all_stargazers = {"a", "b"} /\ all_watchers = {"b", "c"} /\ all_forks = {}
              /\ classification = [l \in Logins |->
                    IF l = "a" THEN "msft" ELSE IF l = "b" THEN KindFalse ELSE "other"] )
            => /\ Cardinality(all_users) = 3
               /\ Cardinality(significant_users) = 2
               /\ Cardinality(msft_users) = 1

\* The run of the example has ended.
C7_Witness ==
    /\ pc = "done"
    /\ all_stargazers = {"a", "b"} /\ all_watchers = {"b", "c"} /\ all_forks = {}
    /\ classification["a"] = "msft" /\ classification["b"] = KindFalse
    /\ classification["c"] = "other"
    /\ power_users_rate = [num |-> 2, den |-> 3]

\* C8: the count query is issued once per run, and when it got no repository
\* (absent result, repository null, data absent or null) the three counts are 0,
\* no exception ended the run and scoring goes on with the collected sets.
C8_CountsFailSoft ==
    /\ countRequests <= 1
    /\ pc \in {"classify", "done"} => countRequests = 1
    /\ (log # <<>> /\ Last(log).request.field = "counts" /\ NoEntity(Last(log).outcome)) =>
         /\ err = ""
         /\ pc \in {"classify", "done"}
         /\ stars = 0 /\ watches = 0 /\ forks_count = 0
         /\ all_users = all_stargazers \cup all_watchers \cup all_forks

\* C9: when the profile query got no user (absent result, user null, data
\* absent or null) the profile is (0, "", 0), the user is classified not
\* significant, and no exception ended the run.
C9_ProfileFailSoft ==
    (log # <<>> /\ Last(log).request.field = "user" /\ NoEntity(Last(log).outcome)) =>
        /\ err = ""
        /\ pc \in {"classify", "done"}
        /\ profile = [raised |-> "", contributions |-> 0, company |-> <<>>, public_repos |-> 0]
        /\ classification[Last(log).request.login] = KindFalse
        /\ Last(log).request.login \notin significant_users

\* The segments of a URL path: its non-empty pieces between slashes.
IsSegment(piece) == piece # <<>>
PathSegments(url) == SelectSeq(Split(urlparse(url).path, "/"), IsSegment)

\* C10: once the address is parsed, (owner, name) are the first two segments
\* of the URL path when it has at least two, and otherwise the run has failed
\* with an error before any request was issued.
C10_FirstTwoSegments ==
    pc # "parse" =>
        LET segs == PathSegments(repo_url)
        IN  IF Len(segs) >= 2
            THEN pc # "crashed" /\ owner = segs[1] /\ repo = segs[2]
            ELSE pc = "crashed" /\ err = "ValueError" /\ log = <<>>

====
